---- MODULE Spec2Model ----
(***************************************************************************)
(* rusty-notes: the note collection, the open tabs, the current selection, *)
(* the confirmation dialog and the autosave sweep of src/main.rs.          *)
(*                                                                         *)
(* A Rust String is a sequence of Unicode scalar values (natural numbers). *)
(* Indices into `notes` keep the source's 0-based values: index i is the   *)
(* element notes[i + 1] of the TLA+ sequence.  One call of                 *)
(* AppState::update is one frame: keyboard shortcuts, the confirmation     *)
(* dialog, the autosave sweep, then the panels, in that order.  A step of  *)
(* the model is a whole frame in which at most one intent of the user      *)
(* arrives: a shortcut or a dialog button acts before the frame's autosave *)
(* sweep, a click in a panel after it.                                     *)
(***************************************************************************)
EXTENDS Integers, Sequences, FiniteSets, TLC

\* Option::None for Option<usize>.
None == -1

\* Duration::from_secs(30).
AutosaveInterval == 30

\* Bounds of the model.
MaxNotes == 3
MaxTabs == 3
MaxTime == 30
MaxRequestTabs == 2
MaxEditedNotes == 2
MaxEditedTabs == 1
MaxLines == 2
MaxLiveNotes == 1
MaxSharedNotes == 2

\* How far the clock moves in one step of Tick.
TickStep == AutosaveInterval

-----------------------------------------------------------------------------
(* Strings *)

\* "Note_" and ".md"
NotePrefix == <<78, 111, 116, 101, 95>>
DotMd == <<46, 109, 100>>

\* File stems found in the notes directory at start-up: "z".
InitStems == {<<122>>}
\* File stems found in a directory with unreadable files: "y", "z".
LoadStems == {<<121>>, <<122>>}
\* What every file found at start-up holds: "x".
InitContent == <<120>>
\* Texts the editor can hold: "", "\u00e9" (e with an acute accent).
Contents == {<<>>, <<233>>}
\* The bytes of a file that is not UTF-8.
InvalidBytes == <<255>>
\* Texts typed into the title field: "", "a b".
RenameInputs == {<<>>, <<97, 32, 98>>}

\* char::to_lowercase, on the characters of the model (ASCII and 'É').
LowerChar(c) ==
    IF c >= 65 /\ c <= 90 THEN c + 32 ELSE IF c = 201 THEN 233 ELSE c

to_lowercase(s) == [k \in 1..Len(s) |-> LowerChar(s[k])]

\* char::is_alphanumeric (Unicode: 'É' and 'é' are alphanumeric).
is_alphanumeric(c) ==
    \/ c >= 48 /\ c <= 57
    \/ c >= 65 /\ c <= 90
    \/ c >= 97 /\ c <= 122
    \/ c \in {201, 233}

\* title.replace(|c: char| !c.is_alphanumeric() && c != '_', "_")
SafeTitle(t) ==
    [k \in 1..Len(t) |-> IF ~is_alphanumeric(t[k]) /\ t[k] # 95 THEN 95 ELSE t[k]]

\* String's Ord: lexicographic on the scalar values.
RECURSIVE StrLess(_, _)
StrLess(a, b) ==
    IF Len(b) = 0 THEN FALSE
    ELSE IF Len(a) = 0 THEN TRUE
    ELSE IF a[1] # b[1] THEN a[1] < b[1]
    ELSE StrLess(Tail(a), Tail(b))

\* The decimal digits of n, as format!("{}", n) writes them.
RECURSIVE Decimal(_)
Decimal(n) ==
    IF n < 10 THEN <<48 + n>> ELSE Decimal(n \div 10) \o <<48 + (n % 10)>>

ends_with(s, suffix) ==
    /\ Len(s) >= Len(suffix)
    /\ SubSeq(s, Len(s) - Len(suffix) + 1, Len(s)) = suffix

RECURSIVE trim_end_matches(_, _)
trim_end_matches(s, suffix) ==
    IF ends_with(s, suffix)
    THEN trim_end_matches(SubSeq(s, 1, Len(s) - Len(suffix)), suffix)
    ELSE s

\* notes_dir.join(format!("{}.md", safe_title)): the file name in the
\* notes directory.
NotePath(stem) == stem \o DotMd

\* path.file_stem() of a file whose extension is "md".
file_stem(path) == SubSeq(path, 1, Len(path) - Len(DotMd))

\* The UTF-8 bytes of the scalar value c: what a String holds in memory
\* and what fs::write puts into the file.
Utf8Char(c) ==
    IF c < 128 THEN <<c>>
    ELSE IF c < 2048 THEN <<192 + (c \div 64), 128 + (c % 64)>>
    ELSE IF c < 65536
    THEN <<224 + (c \div 4096), 128 + ((c \div 64) % 64), 128 + (c % 64)>>
    ELSE <<240 + (c \div 262144), 128 + ((c \div 4096) % 64),
           128 + ((c \div 64) % 64), 128 + (c % 64)>>

\* str::as_bytes
RECURSIVE Utf8Encode(_)
Utf8Encode(s) ==
    IF Len(s) = 0 THEN <<>> ELSE Utf8Char(s[1]) \o Utf8Encode(Tail(s))

\* Is b a continuation byte?
IsCont(b) == b >= 128 /\ b <= 191

\* The length of the well-formed sequence at the head of bytes, 0 when
\* there is none (overlong forms, surrogates and values above U+10FFFF
\* are not well formed).
Utf8Width(bytes) ==
    LET n == Len(bytes)
        b1 == bytes[1]
    IN  IF b1 < 128 THEN 1
        ELSE IF b1 >= 194 /\ b1 <= 223 /\ n >= 2 /\ IsCont(bytes[2]) THEN 2
        ELSE IF /\ b1 >= 224 /\ b1 <= 239 /\ n >= 3
                /\ IsCont(bytes[2]) /\ IsCont(bytes[3])
                /\ (b1 = 224 => bytes[2] >= 160)
                /\ (b1 = 237 => bytes[2] <= 159)
        THEN 3
        ELSE IF /\ b1 >= 240 /\ b1 <= 244 /\ n >= 4
                /\ IsCont(bytes[2]) /\ IsCont(bytes[3]) /\ IsCont(bytes[4])
                /\ (b1 = 240 => bytes[2] >= 144)
                /\ (b1 = 244 => bytes[2] <= 143)
        THEN 4
        ELSE 0

\* The scalar value of the well-formed sequence of width w at the head of
\* bytes.
Utf8Value(bytes, w) ==
    IF w = 1 THEN bytes[1]
    ELSE IF w = 2 THEN (bytes[1] - 192) * 64 + (bytes[2] - 128)
    ELSE IF w = 3
    THEN (bytes[1] - 224) * 4096 + (bytes[2] - 128) * 64 + (bytes[3] - 128)
    ELSE (bytes[1] - 240) * 262144 + (bytes[2] - 128) * 4096
             + (bytes[3] - 128) * 64 + (bytes[4] - 128)

\* String::from_utf8: ok and the text, or not ok.
RECURSIVE Utf8Decode(_)
Utf8Decode(bytes) ==
    IF Len(bytes) = 0 THEN [ok |-> TRUE, value |-> <<>>]
    ELSE LET w == Utf8Width(bytes) IN
         IF w = 0 THEN [ok |-> FALSE, value |-> <<>>]
         ELSE LET rest == Utf8Decode(SubSeq(bytes, w + 1, Len(bytes))) IN
              IF rest.ok
              THEN [ok |-> TRUE, value |-> <<Utf8Value(bytes, w)>> \o rest.value]
              ELSE rest

-----------------------------------------------------------------------------
(* Vec<Note> *)

TitleLeq(a, b) == ~StrLess(to_lowercase(b.title), to_lowercase(a.title))

\* One step of a stable sort: n goes after every element that is not
\* greater than it.
RECURSIVE InsertSorted(_, _)
InsertSorted(sorted, n) ==
    IF Len(sorted) = 0 THEN <<n>>
    ELSE LET l == sorted[Len(sorted)] IN
         IF TitleLeq(l, n) THEN Append(sorted, n)
         ELSE Append(InsertSorted(SubSeq(sorted, 1, Len(sorted) - 1), n), l)

\* notes.sort_by(..): slice::sort_by is a stable sort.
RECURSIVE SortNotes(_)
SortNotes(ns) ==
    IF Len(ns) = 0 THEN <<>>
    ELSE InsertSorted(SortNotes(SubSeq(ns, 1, Len(ns) - 1)), ns[Len(ns)])

MinOf(S) == CHOOSE x \in S : \A y \in S : x <= y

\* iter().position(|n| n.title == title)
PositionByTitle(ns, title) ==
    LET hits == {k \in 1..Len(ns) : ns[k].title = title} IN
    IF hits = {} THEN None ELSE MinOf(hits) - 1

\* iter().position(|n| n.path == path)
PositionByPath(ns, path) ==
    LET hits == {k \in 1..Len(ns) : ns[k].path = path} IN
    IF hits = {} THEN None ELSE MinOf(hits) - 1

\* Vec::remove(i)
RemoveAt(s, i) == SubSeq(s, 1, i) \o SubSeq(s, i + 2, Len(s))

\* Vec::retain(|&x| x != i)
Retain(tabs, i) == SelectSeq(tabs, LAMBDA x : x # i)

\* Vec::last().copied()
LastOf(tabs) == IF Len(tabs) = 0 THEN None ELSE tabs[Len(tabs)]

-----------------------------------------------------------------------------
(* The notes directory *)

\* fs::write(path, content) with the bytes of content taken as they are.
WriteFileRaw(fs, path, content) ==
    [p \in (DOMAIN fs) \cup {path} |-> IF p = path THEN content ELSE fs[p]]

\* fs::write(path, content): the file holds the bytes of the String.
WriteFile(fs, path, content) ==
    [p \in (DOMAIN fs) \cup {path} |->
        IF p = path THEN Utf8Encode(content) ELSE fs[p]]

\* fs::read_to_string(path): the file must exist and hold UTF-8.
read_to_string(fs, path) ==
    IF path \in DOMAIN fs THEN Utf8Decode(fs[path])
    ELSE [ok |-> FALSE, value |-> <<>>]

\* Result::unwrap_or_default
unwrap_or_default(r) == IF r.ok THEN r.value ELSE <<>>

\* fs::remove_file(path)
RemoveFile(fs, path) == [p \in (DOMAIN fs) \ {path} |-> fs[p]]

\* fs::rename(from, to): `to` is replaced when it exists.
RenameFile(fs, from, to) ==
    [p \in ((DOMAIN fs) \ {from}) \cup {to} |-> IF p = to THEN fs[from] ELSE fs[p]]

-----------------------------------------------------------------------------
VARIABLES
    notes,                \* AppState.notes: Vec<Note>
    open_tabs,            \* AppState.open_tabs: Vec<usize>
    current_tab,          \* AppState.current_tab: Option<usize>
    editing_title,        \* AppState.editing_title: Option<usize>
    confirmation_dialog,  \* AppState.confirmation_dialog
    files,                \* the .md files of the notes directory: name -> content
    now,                  \* Instant::now(), in seconds
    last,                 \* history: the last operation
    req,                  \* history: the last delete request
    preview               \* the argument and the result of the last call
                          \* of render_markdown_to_html

vars == <<notes, open_tabs, current_tab, editing_title, confirmation_dialog,
          files, now, last, req, preview>>

\* The part of the state the operations of AppState work on.
Cur ==
    [notes |-> notes, open_tabs |-> open_tabs, current_tab |-> current_tab,
     files |-> files]

Commit(s) ==
    /\ notes' = s.notes
    /\ open_tabs' = s.open_tabs
    /\ current_tab' = s.current_tab
    /\ files' = s.files

\* The identity of the note at index i (history: id is not a field of the
\* source's Note; it names the backing object).
IdAt(ns, i) == IF i >= 0 /\ i < Len(ns) THEN ns[i + 1].id ELSE None

NoteIds(s) == [k \in 1..Len(s.notes) |-> s.notes[k].id]
TabIds(s) == [k \in 1..Len(s.open_tabs) |-> IdAt(s.notes, s.open_tabs[k])]
SelId(s) == IdAt(s.notes, s.current_tab)

\* An identity no note of ns has.
FreshId(ns) ==
    MinOf({d \in 1..(Len(ns) + 1) : \A k \in 1..Len(ns) : ns[k].id # d})

\* last: the operation of the last frame, whether it took effect, the index
\* and the note it was about, and whether that note was the selection.
NoOp == [op |-> "other", ok |-> FALSE, idx |-> None, id |-> None, sel |-> FALSE]

NoReq == [id |-> None, over |-> FALSE]

\* The dialog with open = false.  Its action_type and target_index are read
\* only by the handler that closes it (show_confirmation_dialog returns
\* None for a closed dialog, and a request overwrites every field), so a
\* closed dialog carries the values it was constructed with.
ClosedDialog ==
    [open |-> FALSE, action_type |-> "DeleteNote", target_index |-> None]

\* No text has been rendered.
NoPreview == [markdown |-> <<>>, rendered |-> FALSE, html_output |-> <<>>]

\* The orders in which read_dir can yield the files of dir.
ReadOrders(dir) ==
    {s \in [1..Cardinality(dir) -> dir] :
        \A i, j \in 1..Cardinality(dir) : i # j => s[i] # s[j]}

\* AppState::default() at time t on the directory fs, whose files
\* read_dir yields in `order`.
load(fs, order, t) ==
    SortNotes([k \in 1..Len(order) |->
        [title |-> file_stem(order[k]),
         content |-> unwrap_or_default(read_to_string(fs, order[k])),
         path |-> order[k],
         unsaved_changes |-> FALSE,
         last_saved |-> t,
         id |-> k]])

\* A directory of the files `dir` found at start-up, those of `unreadable`
\* holding bytes that are not UTF-8.
InitFiles(dir, unreadable) ==
    [p \in dir |-> IF p \in unreadable THEN InvalidBytes
                   ELSE Utf8Encode(InitContent)]

\* AppState::default(): read_dir yields the files in `order`, and reading
\* those of `unreadable` fails.
Loaded(order, unreadable) ==
    load(InitFiles({order[k] : k \in 1..Len(order)}, unreadable), order, 0)

\* The state after construction, every file having been read.
Init ==
    \E stems \in SUBSET InitStems :
      LET dir == {NotePath(s) : s \in stems} IN
      \E order \in ReadOrders(dir) :
          /\ notes = Loaded(order, {})
          /\ files = InitFiles(dir, {})
          /\ open_tabs = <<>>
          /\ current_tab = None
          /\ editing_title = None
          /\ confirmation_dialog = ClosedDialog
          /\ now = 0
          /\ last = NoOp
          /\ req = NoReq
          /\ preview = NoPreview

-----------------------------------------------------------------------------
(* AppState's operations, as functions of the state they act on. *)

\* create_note: "Find the index after sorting".
CreatedIndex(sorted, safe_title) ==
    LET p == PositionByTitle(sorted, safe_title) IN IF p = None THEN 0 ELSE p

\* create_note() at time t; ok: fs::write succeeds.
create_note(s, ok, t) ==
    LET title == NotePrefix \o Decimal(Len(s.notes) + 1)
        safe_title == SafeTitle(title)
        path == NotePath(safe_title)
        note == [title |-> trim_end_matches(safe_title, DotMd),
                 content |-> <<>>,
                 path |-> path,
                 unsaved_changes |-> FALSE,
                 last_saved |-> t,
                 id |-> FreshId(s.notes)]
        sorted == SortNotes(Append(s.notes, note))
        new_idx == CreatedIndex(sorted, safe_title)
    IN  IF ok
        THEN [notes |-> sorted,
              open_tabs |-> Append(s.open_tabs, new_idx),
              current_tab |-> new_idx,
              files |-> WriteFile(s.files, path, <<>>)]
        ELSE s

\* The retain of delete_note without the decrement of the indices above i.
DeleteTabsNoShift(tabs, i) == Retain(tabs, i)

\* delete_note: "Update open tabs".
DeleteTabs(tabs, i) ==
    LET kept == Retain(tabs, i) IN
    [k \in 1..Len(kept) |-> IF kept[k] > i THEN kept[k] - 1 ELSE kept[k]]

\* "Update current tab" without the decrement of a selection above i.
DeleteCurrentNoShift(current, i, tabs, ns) ==
    LET shifted == IF current = None THEN None
                   ELSE IF current = i THEN LastOf(tabs)
                   ELSE current
    IN  IF Len(ns) = 0 THEN None ELSE shifted

\* "Update current tab" with open_tabs.first() in the place of open_tabs.last().
DeleteCurrentSelectsFirst(current, i, tabs, ns) ==
    LET shifted == IF current = None THEN None
                   ELSE IF current = i
                        THEN (IF Len(tabs) = 0 THEN None ELSE tabs[1])
                   ELSE IF current > i THEN current - 1
                   ELSE current
    IN  IF Len(ns) = 0 THEN None ELSE shifted

\* delete_note: "Update current tab"; tabs and ns are the open tabs and the
\* notes after the removal.
DeleteCurrent(current, i, tabs, ns) ==
    LET shifted == IF current = None THEN None
                   ELSE IF current = i THEN LastOf(tabs)
                   ELSE IF current > i THEN current - 1
                   ELSE current
    IN  IF Len(ns) = 0 THEN None ELSE shifted

\* delete_note(i), for i < notes.len() (notes[i] panics otherwise).
delete_note(s, i) ==
    LET ns == RemoveAt(s.notes, i)
        tabs == DeleteTabs(s.open_tabs, i)
    IN  [notes |-> ns,
         open_tabs |-> tabs,
         current_tab |-> DeleteCurrent(s.current_tab, i, tabs, ns),
         files |-> RemoveFile(s.files, s.notes[i + 1].path)]

\* rename_note: "Find the new index of the renamed note".
RenamedIndex(sorted, old_path, current_idx) ==
    LET p == PositionByPath(sorted, old_path) IN
    IF p = None THEN current_idx ELSE p

\* rename_note: "Update open tabs indices".
RenameTabs(tabs, current_idx, new_idx) ==
    [k \in 1..Len(tabs) |-> IF tabs[k] = current_idx THEN new_idx ELSE tabs[k]]

\* rename_note without the comparison of the sanitized title.
RenameAttemptedAnyTitle(s, idx, new_title) ==
    /\ Len(new_title) > 0
    /\ idx >= 0 /\ idx < Len(s.notes)

\* rename_note: does the call get as far as fs::rename?
RenameAttempted(s, idx, new_title) ==
    /\ Len(new_title) > 0
    /\ idx >= 0 /\ idx < Len(s.notes)
    /\ s.notes[idx + 1].title # SafeTitle(new_title)

\* rename_note taking a failed fs::rename for a success.
RenameSucceedsUnchecked(s, idx, new_title, io_ok) ==
    /\ RenameAttempted(s, idx, new_title)
    /\ s.notes[idx + 1].path \in DOMAIN s.files

\* rename_note: does fs::rename succeed? (io_ok: the storage does not fail)
RenameSucceeds(s, idx, new_title, io_ok) ==
    /\ RenameAttempted(s, idx, new_title)
    /\ io_ok
    /\ s.notes[idx + 1].path \in DOMAIN s.files

\* The renamed notes without the sort_by of rename_note.
RenameUnsorted(ns, idx, safe_title) ==
    [ns EXCEPT ![idx + 1] =
        [@ EXCEPT !.title = safe_title,
                  !.path = NotePath(safe_title),
                  !.unsaved_changes = TRUE]]

\* The collection after the successful rename of the note at idx.
RenameSorted(ns, idx, safe_title) ==
    SortNotes([ns EXCEPT ![idx + 1] =
                  [@ EXCEPT !.title = safe_title,
                            !.path = NotePath(safe_title),
                            !.unsaved_changes = TRUE]])

\* rename_note(idx, new_title)
rename_note(s, idx, new_title, io_ok) ==
    IF ~RenameSucceeds(s, idx, new_title, io_ok) THEN s
    ELSE LET safe_title == SafeTitle(new_title)
             old_path == s.notes[idx + 1].path
             sorted == RenameSorted(s.notes, idx, safe_title)
             new_idx == RenamedIndex(sorted, old_path, idx)
         IN  [notes |-> sorted,
              open_tabs |-> RenameTabs(s.open_tabs, idx, new_idx),
              current_tab |-> IF s.current_tab # None /\ s.current_tab = idx
                              THEN new_idx ELSE s.current_tab,
              files |-> RenameFile(s.files, old_path, NotePath(safe_title))]

\* save_current_note: is the write attempted and does it succeed?
SaveWrites(s, io_ok) ==
    /\ s.current_tab # None
    /\ s.notes[s.current_tab + 1].unsaved_changes
    /\ io_ok

\* save_current_note() at time t.
save_current_note(s, io_ok, t) ==
    IF SaveWrites(s, io_ok)
    THEN LET note == s.notes[s.current_tab + 1] IN
         [s EXCEPT !.files = WriteFile(s.files, note.path, note.content),
                   !.notes[s.current_tab + 1] =
                       [note EXCEPT !.unsaved_changes = FALSE, !.last_saved = t]]
    ELSE s

\* A sweep that is never due.
AutosaveDueNever(ns, t) == {}

\* The sweep without the comparison with autosave_interval.
AutosaveDueAnyTime(ns, t) ==
    {k \in 1..Len(ns) : ns[k].unsaved_changes}

\* autosave_notes: the notes the sweep tries to write at time t.
AutosaveDue(ns, t) ==
    {k \in 1..Len(ns) :
        ns[k].unsaved_changes /\ t - ns[k].last_saved >= AutosaveInterval}

\* autosave_notes: the files after the sweep has gone through notes 1..k;
\* written: the notes whose fs::write succeeds.
RECURSIVE AutosaveFiles(_, _, _, _)
AutosaveFiles(fs, ns, written, k) ==
    IF k = 0 THEN fs
    ELSE LET before == AutosaveFiles(fs, ns, written, k - 1) IN
         IF k \in written THEN WriteFile(before, ns[k].path, ns[k].content)
         ELSE before

\* autosave_notes() at time t, for written \subseteq AutosaveDue(s.notes, t).
autosave_notes(s, written, t) ==
    [s EXCEPT !.files = AutosaveFiles(s.files, s.notes, written, Len(s.notes)),
              !.notes = [k \in 1..Len(s.notes) |->
                            IF k \in written
                            THEN [s.notes[k] EXCEPT !.unsaved_changes = FALSE,
                                                    !.last_saved = t]
                            ELSE s.notes[k]]]

\* "Open note": push the index unless it is open, and select it.
open_note(s, i) ==
    [s EXCEPT !.open_tabs = IF \E k \in 1..Len(s.open_tabs) : s.open_tabs[k] = i
                            THEN s.open_tabs ELSE Append(s.open_tabs, i),
              !.current_tab = i]

\* The close button without the update of current_tab.
close_tab_keep_selection(s, idx) ==
    [s EXCEPT !.open_tabs = Retain(s.open_tabs, idx)]

\* The tab bar's close: open_tabs.retain(|&x| x != idx), and the selection
\* moves only if it was the closed tab.
close_tab(s, idx) ==
    [s EXCEPT !.open_tabs = Retain(s.open_tabs, idx),
              !.current_tab = IF s.current_tab = idx
                              THEN LastOf(Retain(s.open_tabs, idx))
                              ELSE s.current_tab]

\* Ctrl+W and the confirmed close: open_tabs.retain(|&x| x != idx);
\* current_tab = open_tabs.last().copied()
close_tab_select_last(s, idx) ==
    [s EXCEPT !.open_tabs = Retain(s.open_tabs, idx),
              !.current_tab = LastOf(Retain(s.open_tabs, idx))]

\* The text of the editor changed to content.
edit_content(s, content) ==
    [s EXCEPT !.notes[s.current_tab + 1] =
                  [@ EXCEPT !.unsaved_changes = TRUE, !.content = content]]

-----------------------------------------------------------------------------
(* update() *)

\* "Periodic autosave check": the states the sweep can leave s in.
AfterAutosave(s) ==
    {autosave_notes(s, written, now) : written \in SUBSET AutosaveDue(s.notes, now)}

\* The rest of a frame after a shortcut or a dialog button has made s.
ThenAutosave(s) == \E s2 \in AfterAutosave(s) : Commit(s2)

\* A request that leaves a pending request in place.
RequestKeepsPending(action, idx) ==
    confirmation_dialog' =
        IF confirmation_dialog.open THEN confirmation_dialog
        ELSE [open |-> TRUE, action_type |-> action, target_index |-> idx]

\* The dialog a destructive intent on the note at index idx opens.
Request(action, idx) ==
    confirmation_dialog' =
        [open |-> TRUE, action_type |-> action, target_index |-> idx]

CanCreate == Len(notes) < MaxNotes /\ Len(open_tabs) < MaxTabs

\* Ctrl+N
CtrlN ==
    /\ CanCreate
    /\ \E ok \in BOOLEAN :
          /\ ThenAutosave(create_note(Cur, ok, now))
    /\ UNCHANGED <<editing_title, confirmation_dialog, now>>

\* Ctrl+S; notes[idx] panics when idx is out of range.
CtrlS ==
    /\ current_tab # None => current_tab < Len(notes)
    /\ \E io_ok \in BOOLEAN :
          /\ ThenAutosave(save_current_note(Cur, io_ok, now))
    /\ UNCHANGED <<editing_title, confirmation_dialog, now>>

\* Ctrl+W; notes[idx] panics when idx is out of range.
CtrlW ==
    /\ current_tab # None /\ current_tab < Len(notes)
    /\ IF notes[current_tab + 1].unsaved_changes
       THEN /\ Request("CloseUnsavedTab", current_tab)
            /\ ThenAutosave(Cur)
       ELSE /\ ThenAutosave(close_tab_select_last(Cur, current_tab))
            /\ UNCHANGED confirmation_dialog
    /\ UNCHANGED <<editing_title, now>>

\* A Cancel button that closes the tab the dialog targets.
DialogCancelCloses ==
    /\ confirmation_dialog.open
    /\ confirmation_dialog' = ClosedDialog
    /\ LET idx == confirmation_dialog.target_index IN
       /\ ThenAutosave(IF idx # None THEN close_tab_select_last(Cur, idx) ELSE Cur)
    /\ UNCHANGED <<editing_title, now>>

\* The dialog's Cancel button.
DialogCancel ==
    /\ confirmation_dialog.open
    /\ confirmation_dialog' = ClosedDialog
    /\ ThenAutosave(Cur)
    /\ UNCHANGED <<editing_title, now>>

\* The dialog's confirm button, DialogAction::DeleteNote; notes[i] panics
\* when the target is out of range.
DialogConfirmDelete ==
    /\ confirmation_dialog.open
    /\ confirmation_dialog.action_type = "DeleteNote"
    /\ confirmation_dialog' = ClosedDialog
    /\ LET idx == confirmation_dialog.target_index IN
       /\ idx # None => idx < Len(notes)
       /\ ThenAutosave(IF idx # None THEN delete_note(Cur, idx) ELSE Cur)
    /\ UNCHANGED <<editing_title, now>>

\* The dialog's confirm button, DialogAction::CloseUnsavedTab.
DialogConfirmClose ==
    /\ confirmation_dialog.open
    /\ confirmation_dialog.action_type = "CloseUnsavedTab"
    /\ confirmation_dialog' = ClosedDialog
    /\ LET idx == confirmation_dialog.target_index IN
       /\ ThenAutosave(IF idx # None THEN close_tab_select_last(Cur, idx) ELSE Cur)
    /\ UNCHANGED <<editing_title, now>>

\* A frame without an intent.
IdleFrame ==
    /\ ThenAutosave(Cur)
    /\ UNCHANGED <<editing_title, confirmation_dialog, now>>

\* Top panel: the new-note button.
ClickNewNote ==
    /\ CanCreate
    /\ \E s \in AfterAutosave(Cur), ok \in BOOLEAN :
          /\ Commit(create_note(s, ok, now))
    /\ UNCHANGED <<editing_title, confirmation_dialog, now>>

\* Top panel: the save button.
ClickSave ==
    /\ current_tab # None => current_tab < Len(notes)
    /\ \E s \in AfterAutosave(Cur), io_ok \in BOOLEAN :
          /\ Commit(save_current_note(s, io_ok, now))
    /\ UNCHANGED <<editing_title, confirmation_dialog, now>>

\* Side panel: "Open note" on the note at index i.
OpenNote ==
    /\ \E s \in AfterAutosave(Cur), i \in 0..(Len(notes) - 1) :
          /\ Len(open_note(s, i).open_tabs) <= MaxTabs
          /\ Commit(open_note(s, i))
    /\ UNCHANGED <<editing_title, confirmation_dialog, now>>

\* Side panel: "Delete note" on the note at index i.
RequestDelete(i) ==
    /\ \E s \in AfterAutosave(Cur) : Commit(s)
    /\ Request("DeleteNote", i)
    /\ UNCHANGED <<editing_title, now>>

\* Tab bar: a click on the k-th tab's label; notes[tab_idx] panics when
\* tab_idx is out of range.
SelectTab ==
    /\ \E s \in AfterAutosave(Cur), k \in 1..Len(open_tabs) :
          /\ open_tabs[k] < Len(notes)
          /\ Commit([s EXCEPT !.current_tab = open_tabs[k]])
    /\ UNCHANGED <<editing_title, confirmation_dialog, now>>

\* The close button that closes the tab whether or not the note is dirty.
CloseTabNoDirtyCheck(k) ==
    /\ \E s \in AfterAutosave(Cur) :
          LET tab_idx == open_tabs[k] IN
          /\ tab_idx < Len(notes)
          /\ Commit(close_tab(s, tab_idx))
          /\ UNCHANGED confirmation_dialog
    /\ UNCHANGED <<editing_title, now>>

\* Tab bar: a click on the k-th tab's close button.
CloseTab(k) ==
    /\ \E s \in AfterAutosave(Cur) :
          LET tab_idx == open_tabs[k] IN
          /\ tab_idx < Len(notes)
          /\ IF s.notes[tab_idx + 1].unsaved_changes
             THEN /\ Request("CloseUnsavedTab", tab_idx)
                  /\ Commit(s)
             ELSE /\ Commit(close_tab(s, tab_idx))
                  /\ UNCHANGED confirmation_dialog
    /\ UNCHANGED <<editing_title, now>>

\* Title area: the Rename button.
StartRename ==
    /\ current_tab # None /\ current_tab < Len(notes)
    /\ editing_title # current_tab
    /\ editing_title' = current_tab
    /\ \E s \in AfterAutosave(Cur) :
          /\ Commit(s)
    /\ UNCHANGED <<confirmation_dialog, now>>

\* Title area: Enter or OK with new_title in the title field.
CommitRename(new_title, io_ok) ==
    /\ current_tab # None /\ current_tab < Len(notes)
    /\ editing_title = current_tab
    /\ \E s \in AfterAutosave(Cur) :
          /\ Commit(rename_note(s, current_tab, new_title, io_ok))
    /\ editing_title' = None
    /\ UNCHANGED <<confirmation_dialog, now>>

\* Title area: Cancel.
CancelRename ==
    /\ current_tab # None /\ current_tab < Len(notes)
    /\ editing_title = current_tab
    /\ editing_title' = None
    /\ \E s \in AfterAutosave(Cur) :
          /\ Commit(s)
    /\ UNCHANGED <<confirmation_dialog, now>>

\* Editor: the text changed to content.
EditContent ==
    /\ current_tab # None /\ current_tab < Len(notes)
    /\ \E s \in AfterAutosave(Cur), content \in Contents :
          /\ content # s.notes[current_tab + 1].content
          /\ Commit(edit_content(s, content))
    /\ UNCHANGED <<editing_title, confirmation_dialog, now>>

\* "No note open": the Create New Note button.
ClickCreateNewNote ==
    /\ CanCreate
    /\ current_tab = None
    /\ \E s \in AfterAutosave(Cur), ok \in BOOLEAN :
          /\ Commit(create_note(s, ok, now))
    /\ UNCHANGED <<editing_title, confirmation_dialog, now>>

\* Time passes between frames.
Tick ==
    /\ now + TickStep <= MaxTime
    /\ now' = now + TickStep
    /\ UNCHANGED <<notes, open_tabs, current_tab, editing_title,
                   confirmation_dialog, files>>

-----------------------------------------------------------------------------
(* History of a frame, read off the step.  W is the set of operations a   *)
(* specification watches: `last` tells them apart and takes every other   *)
(* operation for "other".                                                 *)

Watch(W, rec) == last' = IF rec.op \in W THEN rec ELSE NoOp

Other == last' = NoOp

Created(W) ==
    LET ok == Len(notes') > Len(notes) IN
    Watch(W, [op |-> "create", ok |-> ok, idx |-> None,
              id |-> IF ok THEN FreshId(notes) ELSE None, sel |-> FALSE])

\* rename_note(current_tab, new_title) has been called.  A specification
\* that watches "rename" sees every call as such; one that watches the
\* cases sees the call with an empty or unchanged title ("rename_noop"),
\* the call whose fs::rename fails ("rename_failed": the storage fails or
\* the note's file is missing) and the others ("rename_done").
Renamed(W, new_title, io_ok) ==
    LET id == IdAt(notes, current_tab)
        note == notes[current_tab + 1]
        case == IF Len(new_title) = 0 \/ SafeTitle(new_title) = note.title
                THEN "rename_noop"
                ELSE IF ~io_ok \/ note.path \notin DOMAIN files
                THEN "rename_failed"
                ELSE "rename_done"
    IN  Watch(W, [op |-> IF "rename" \in W THEN "rename" ELSE case,
                  ok |-> \E k \in 1..Len(notes') :
                            /\ notes'[k].id = id
                            /\ notes'[k].title # note.title,
                  idx |-> current_tab, id |-> id, sel |-> TRUE])

Deleted(W) ==
    LET idx == confirmation_dialog.target_index IN
    Watch(W, [op |-> "delete", ok |-> idx # None, idx |-> idx,
              id |-> IdAt(notes, idx), sel |-> current_tab = idx])

\* A close intent on the tab of the note at index idx, told apart by the
\* note's unsaved_changes when the intent arrives.
CloseIntended(W, idx) ==
    Watch(W, [op |-> IF notes[idx + 1].unsaved_changes
                     THEN "close_dirty" ELSE "close_clean",
              ok |-> TRUE, idx |-> idx, id |-> None, sel |-> current_tab = idx])

\* The confirmation of a CloseUnsavedTab request.
CloseConfirmed(W) ==
    LET idx == confirmation_dialog.target_index IN
    Watch(W, [op |-> "force_close", ok |-> idx # None, idx |-> idx,
              id |-> None, sel |-> current_tab = idx])

\* The cancellation of a request.
Cancelled(W) ==
    Watch(W, [op |-> "cancel", ok |-> TRUE,
              idx |-> confirmation_dialog.target_index,
              id |-> None, sel |-> FALSE])

\* save_current_note() has been called; ok: the frame has left the
\* selected note clean that was dirty.
Saved(W) ==
    Watch(W, [op |-> "save",
              ok |-> /\ current_tab # None
                     /\ notes[current_tab + 1].unsaved_changes
                     /\ ~notes'[current_tab + 1].unsaved_changes,
              idx |-> current_tab, id |-> None, sel |-> TRUE])

\* A frame without an intent has run the autosave sweep; ok: the sweep has
\* left a note clean that was dirty.
Swept(W) ==
    Watch(W, [op |-> "idle",
              ok |-> \E k \in 1..Len(notes) :
                        notes[k].unsaved_changes /\ ~notes'[k].unsaved_changes,
              idx |-> None, id |-> None, sel |-> FALSE])

\* The text of the selected note has been edited.
Edited(W) ==
    Watch(W, [op |-> "edit", ok |-> TRUE, idx |-> current_tab, id |-> None,
              sel |-> TRUE])

\* req: the note the last delete request was made for and whether that
\* request replaced a pending delete request for another note, as long as
\* nothing but the confirmation has followed the request.
DeleteRequested(W, i) ==
    /\ Other
    /\ req' = IF "request_delete" \in W
              THEN [id |-> IdAt(notes, i),
                    over |-> /\ confirmation_dialog.open
                             /\ confirmation_dialog.action_type = "DeleteNote"
                             /\ IdAt(notes, confirmation_dialog.target_index)
                                    # IdAt(notes, i)]
              ELSE NoReq

\* An intent that is no delete request and no confirmation has arrived.
Intervened == req' = NoReq

\* A frame in which at most one intent arrives and no text is edited.
Frame(W) ==
  /\ UNCHANGED preview
  /\
    \/ CtrlN /\ Created(W) /\ Intervened
    \/ CtrlS /\ Saved(W) /\ Intervened
    \/ CtrlW /\ CloseIntended(W, current_tab) /\ Intervened
    \/ DialogCancel /\ Cancelled(W) /\ Intervened
    \/ DialogConfirmDelete /\ Deleted(W) /\ UNCHANGED req
    \/ DialogConfirmClose /\ CloseConfirmed(W) /\ Intervened
    \/ IdleFrame /\ Swept(W) /\ Intervened
    \/ ClickNewNote /\ Created(W) /\ Intervened
    \/ ClickSave /\ Saved(W) /\ Intervened
    \/ OpenNote /\ Other /\ Intervened
    \/ \E i \in 0..(Len(notes) - 1) : RequestDelete(i) /\ DeleteRequested(W, i)
    \/ SelectTab /\ Other /\ Intervened
    \/ \E k \in 1..Len(open_tabs) :
          CloseTab(k) /\ CloseIntended(W, open_tabs[k]) /\ Intervened
    \/ StartRename /\ Other /\ Intervened
    \/ \E new_title \in RenameInputs, io_ok \in BOOLEAN :
          CommitRename(new_title, io_ok) /\ Renamed(W, new_title, io_ok)
              /\ Intervened
    \/ CancelRename /\ Other /\ Intervened
    \/ ClickCreateNewNote /\ Created(W) /\ Intervened

-----------------------------------------------------------------------------
(* The notes, the tabs and the dialog, while no time passes and no text   *)
(* is edited: every frame's autosave sweep finds nothing due.             *)

\* No two notes of ns have the same path.
DistinctPaths(ns) ==
    \A i, j \in 1..Len(ns) : i # j => ns[i].path # ns[j].path

\* Notes may share a path while there are at most MaxSharedNotes of them;
\* more notes are followed while their paths are distinct.
FewOrDistinct(ns) == Len(ns) <= MaxSharedNotes \/ DistinctPaths(ns)

\* The frames with create_note, rename_note and delete_note watched.
Next ==
    /\ Frame({"create", "rename", "delete"})
    /\ FewOrDistinct(notes')

Spec == Init /\ [][Next]_vars

\* The frames with the delete requests watched, while at most MaxRequestTabs
\* tabs are open.
NextRequest ==
    /\ Frame({"request_delete"})
    /\ Len(open_tabs') <= MaxRequestTabs
    /\ FewOrDistinct(notes')

SpecRequest == Init /\ [][NextRequest]_vars

\* The frames with the closes that take effect watched.
NextClose ==
    /\ Frame({"close_clean", "force_close"})
    /\ FewOrDistinct(notes')

SpecClose == Init /\ [][NextClose]_vars

\* The frames with the close intents and the cancellations watched, while
\* at most MaxRequestTabs tabs are open.
NextDialog ==
    /\ Frame({"close_clean", "close_dirty", "cancel"})
    /\ Len(open_tabs') <= MaxRequestTabs
    /\ FewOrDistinct(notes')

SpecDialog == Init /\ [][NextDialog]_vars

\* The frames with the cases of rename_note watched, while at most
\* MaxRequestTabs tabs are open.
NextRename ==
    /\ Frame({"rename_noop", "rename_failed", "rename_done"})
    /\ Len(open_tabs') <= MaxRequestTabs
    /\ FewOrDistinct(notes')

SpecRename == Init /\ [][NextRename]_vars

-----------------------------------------------------------------------------
(* The notes while time passes and the text is edited. *)

\* A frame in which at most one intent arrives, or the time between two
\* frames.
FrameOrTick(W) ==
    \/ Frame(W)
    \/ EditContent /\ Edited(W) /\ Intervened /\ UNCHANGED preview
    \/ Tick /\ Other /\ Intervened /\ UNCHANGED preview

\* The frames with the sweeps and the edits watched, while there are at
\* most MaxEditedNotes notes and MaxEditedTabs tabs and the notes have
\* distinct paths.
NextAutosave ==
    /\ FrameOrTick({"idle", "edit"})
    /\ Len(notes') <= MaxEditedNotes
    /\ Len(open_tabs') <= MaxEditedTabs
    /\ DistinctPaths(notes')

SpecAutosave == Init /\ [][NextAutosave]_vars

-----------------------------------------------------------------------------
(* Start-up on a directory some of whose files cannot be read. *)

InitLoad ==
    \E stems \in SUBSET LoadStems :
      LET dir == {NotePath(s) : s \in stems} IN
      \E order \in ReadOrders(dir), unreadable \in SUBSET dir :
          /\ notes = Loaded(order, unreadable)
          /\ files = InitFiles(dir, unreadable)
          /\ open_tabs = <<>>
          /\ current_tab = None
          /\ editing_title = None
          /\ confirmation_dialog = ClosedDialog
          /\ now = 0
          /\ last = NoOp
          /\ req = NoReq
          /\ preview = NoPreview

NextLoad ==
    /\ Frame({})
    /\ Len(notes') <= MaxEditedNotes
    /\ Len(open_tabs') <= MaxEditedTabs

SpecLoad == InitLoad /\ [][NextLoad]_vars

-----------------------------------------------------------------------------
(* render_markdown_to_html *)

\* char::is_whitespace, on the characters of the model.
is_whitespace(c) == c \in {9, 10, 11, 12, 13, 32, 133, 160}

RECURSIVE trim_start(_)
trim_start(s) ==
    IF Len(s) > 0 /\ is_whitespace(s[1]) THEN trim_start(Tail(s)) ELSE s

RECURSIVE trim_end(_)
trim_end(s) ==
    IF Len(s) > 0 /\ is_whitespace(s[Len(s)])
    THEN trim_end(SubSeq(s, 1, Len(s) - 1)) ELSE s

\* str::trim
trim(s) == trim_end(trim_start(s))

starts_with(s, prefix) ==
    /\ Len(s) >= Len(prefix)
    /\ SubSeq(s, 1, Len(prefix)) = prefix

\* The position of the first '\n' of s, 0 without one.
FirstNewline(s) ==
    IF \E k \in 1..Len(s) : s[k] = 10
    THEN MinOf({k \in 1..Len(s) : s[k] = 10}) ELSE 0

\* A line that ended in '\n', without the '\r' before it.
StripCr(line) ==
    IF Len(line) > 0 /\ line[Len(line)] = 13
    THEN SubSeq(line, 1, Len(line) - 1) ELSE line

\* str::lines: the lines end at '\n' or "\r\n", and the last line needs no
\* line ending; the empty text has no line.
RECURSIVE lines(_)
lines(s) ==
    IF Len(s) = 0 THEN <<>>
    ELSE LET i == FirstNewline(s) IN
         IF i = 0 THEN <<s>>
         ELSE <<StripCr(SubSeq(s, 1, i - 1))>> \o lines(SubSeq(s, i + 1, Len(s)))

\* "# ", "## ", "### ", "- ", "* ", "> " and "```"
Hash1 == <<35, 32>>
Hash2 == <<35, 35, 32>>
Hash3 == <<35, 35, 35, 32>>
Dash == <<45, 32>>
Star == <<42, 32>>
Gt == <<62, 32>>
Fence == <<96, 96, 96>>

\* What one push_str of the loop appends: the text between two literals.
Element(open, text, close) == [open |-> open, text |-> text, close |-> close]

\* &trimmed[n..]
From(trimmed, n) == SubSeq(trimmed, n + 1, Len(trimmed))

\* The body of the loop, for one line.
render_line(line) ==
    LET trimmed == trim(line) IN
    IF Len(trimmed) = 0 THEN Element("<p>", <<>>, "</p>")
    ELSE IF starts_with(trimmed, Hash1)
    THEN Element("<h1>", From(trimmed, 2), "</h1>")
    ELSE IF starts_with(trimmed, Hash2)
    THEN Element("<h2>", From(trimmed, 3), "</h2>")
    ELSE IF starts_with(trimmed, Hash3)
    THEN Element("<h3>", From(trimmed, 4), "</h3>")
    ELSE IF starts_with(trimmed, Dash) \/ starts_with(trimmed, Star)
    THEN Element("<li>", From(trimmed, 2), "</li>")
    ELSE IF starts_with(trimmed, Gt)
    THEN Element("<blockquote>", From(trimmed, 2), "</blockquote>")
    ELSE IF starts_with(trimmed, Fence)
    THEN Element("<pre><code>", <<>>, "")
    ELSE IF ends_with(trimmed, Fence)
    THEN Element("</code></pre>", <<>>, "")
    ELSE Element("<p>", trimmed, "</p>")

\* render_markdown_to_html(markdown): the elements pushed to html_output,
\* each followed by '\n'.
render_markdown_to_html(markdown) ==
    LET ls == lines(markdown) IN
    [k \in 1..Len(ls) |-> render_line(ls[k])]

\* Lines of the texts rendered: "", "# Title", "plain text", "## T",
\* "### T", "- T", "* T", "> T", "```", "x```", " p ", "#T", "T\r".
RenderLines ==
    {<<>>,
     <<35, 32, 84, 105, 116, 108, 101>>,
     <<112, 108, 97, 105, 110, 32, 116, 101, 120, 116>>,
     <<35, 35, 32, 84>>,
     <<35, 35, 35, 32, 84>>,
     <<45, 32, 84>>,
     <<42, 32, 84>>,
     <<62, 32, 84>>,
     <<96, 96, 96>>,
     <<120, 96, 96, 96>>,
     <<32, 112, 32>>,
     <<35, 84>>,
     <<84, 13>>}

\* The lines of ls, each but the last followed by '\n'.
RECURSIVE JoinLines(_)
JoinLines(ls) ==
    IF Len(ls) = 0 THEN <<>>
    ELSE IF Len(ls) = 1 THEN ls[1]
    ELSE ls[1] \o <<10>> \o JoinLines(Tail(ls))

\* The texts of at most MaxLines lines of RenderLines.
Texts ==
    UNION {{JoinLines(ls) : ls \in [1..n -> RenderLines]} : n \in 0..MaxLines}

\* The preview of a text that has not been rendered yet.
InitRender ==
    /\ \E text \in Texts :
          preview = [markdown |-> text, rendered |-> FALSE, html_output |-> <<>>]
    /\ notes = <<>>
    /\ files = InitFiles({}, {})
    /\ open_tabs = <<>>
    /\ current_tab = None
    /\ editing_title = None
    /\ confirmation_dialog = ClosedDialog
    /\ now = 0
    /\ last = NoOp
    /\ req = NoReq

\* "Preview mode": the text is rendered.
Render ==
    /\ ~preview.rendered
    /\ preview' = [preview EXCEPT
                      !.rendered = TRUE,
                      !.html_output = render_markdown_to_html(preview.markdown)]
    /\ UNCHANGED <<notes, open_tabs, current_tab, editing_title,
                   confirmation_dialog, files, now, last, req>>

NextRender == Render

SpecRender == InitRender /\ [][NextRender]_vars

-----------------------------------------------------------------------------
(* The titles typed into the title field. *)

\* More texts typed into the title field: "\u00e9", "A1_", "a.b".
TitleInputs == {<<233>>, <<65, 49, 95>>, <<97, 46, 98>>}

\* A frame in which at most one intent arrives, the title field holding a
\* text of RenameInputs or of TitleInputs.
FrameOrTitle(W) ==
    \/ Frame(W)
    \/ /\ \E new_title \in TitleInputs, io_ok \in BOOLEAN :
              CommitRename(new_title, io_ok) /\ Renamed(W, new_title, io_ok)
       /\ Intervened
       /\ UNCHANGED preview

\* The frames with create_note and rename_note watched, while there are at
\* most MaxEditedNotes notes and MaxEditedTabs tabs.
NextTitle ==
    /\ FrameOrTitle({"create", "rename"})
    /\ Len(notes') <= MaxEditedNotes
    /\ Len(open_tabs') <= MaxEditedTabs

SpecTitle == Init /\ [][NextTitle]_vars

-----------------------------------------------------------------------------
(* The note a request was made for, kept while the request is pending. *)

\* A request has been made for the note at index idx.
Retargeted(idx) == req' = [id |-> IdAt(notes, idx), over |-> FALSE]

\* No request has been made: the one that is pending stays, and nothing
\* is kept when the dialog is closed.
Pending == req' = IF confirmation_dialog'.open THEN req ELSE NoReq

\* A frame in which at most one intent arrives and no text is edited;
\* req follows the requests of both kinds and is read by the confirmation.
FrameTargeted(W) ==
  /\ UNCHANGED preview
  /\
    \/ CtrlN /\ Created(W) /\ Pending
    \/ CtrlS /\ Saved(W) /\ Pending
    \/ /\ CtrlW /\ CloseIntended(W, current_tab)
       /\ IF notes[current_tab + 1].unsaved_changes
          THEN Retargeted(current_tab) ELSE Pending
    \/ DialogCancel /\ Cancelled(W) /\ Pending
    \/ DialogConfirmDelete /\ Deleted(W) /\ UNCHANGED req
    \/ DialogConfirmClose /\ CloseConfirmed(W) /\ UNCHANGED req
    \/ IdleFrame /\ Swept(W) /\ Pending
    \/ ClickNewNote /\ Created(W) /\ Pending
    \/ ClickSave /\ Saved(W) /\ Pending
    \/ OpenNote /\ Other /\ Pending
    \/ \E i \in 0..(Len(notes) - 1) : RequestDelete(i) /\ Other /\ Retargeted(i)
    \/ SelectTab /\ Other /\ Pending
    \/ \E k \in 1..Len(open_tabs) :
          /\ CloseTab(k) /\ CloseIntended(W, open_tabs[k])
          /\ IF notes'[open_tabs[k] + 1].unsaved_changes
             THEN Retargeted(open_tabs[k]) ELSE Pending
    \/ StartRename /\ Other /\ Pending
    \/ \E new_title \in RenameInputs, io_ok \in BOOLEAN :
          CommitRename(new_title, io_ok) /\ Renamed(W, new_title, io_ok)
              /\ Pending
    \/ CancelRename /\ Other /\ Pending
    \/ ClickCreateNewNote /\ Created(W) /\ Pending

\* The frames with the confirmations watched, while at most MaxRequestTabs
\* tabs are open.
NextTarget ==
    /\ FrameTargeted({"delete", "force_close"})
    /\ Len(open_tabs') <= MaxRequestTabs
    /\ FewOrDistinct(notes')

SpecTarget == Init /\ [][NextTarget]_vars

-----------------------------------------------------------------------------
(* The loop keeps running, time keeps advancing and the writes of the     *)
(* sweep succeed.                                                          *)

\* The frames with the sweeps watched, while there are at most
\* MaxLiveNotes notes and MaxEditedTabs tabs.
NextLive ==
    /\ FrameOrTick({"idle"})
    /\ Len(notes') <= MaxLiveNotes
    /\ Len(open_tabs') <= MaxEditedTabs

\* Time passes between two frames.
LiveTick == Tick /\ Other /\ Intervened /\ UNCHANGED preview

\* A frame without an intent whose sweep writes every note that is due.
LiveSweep ==
    /\ IdleFrame /\ Swept({"idle"}) /\ Intervened /\ UNCHANGED preview
    /\ notes' = autosave_notes(Cur, AutosaveDue(notes, now), now).notes

SpecLive ==
    Init /\ [][NextLive]_vars /\ WF_vars(LiveTick) /\ WF_vars(LiveSweep)

-----------------------------------------------------------------------------
(* Claims *)

\* The notes the tabs and the selection designate, by identity.
CurNoteIds == NoteIds(Cur)
CurTabIds == TabIds(Cur)
CurSelId == SelId(Cur)

\* The position of the note with identity id in notes, None without one.
IndexOfId(id) ==
    IF \E k \in 1..Len(notes) : notes[k].id = id
    THEN MinOf({k \in 1..Len(notes) : notes[k].id = id}) - 1
    ELSE None

Distinct(seq) ==
    \A j, k \in 1..Len(seq) : j # k => seq[j] # seq[k]

\* C1: a rename that takes effect leaves every open tab and the selection
\* on the note they designated before it, wherever the sort moves the notes.
C1_RenameKeepsReferences ==
    [][(last'.op = "rename" /\ last'.ok)
          => (CurTabIds' = CurTabIds /\ CurSelId' = CurSelId)]_vars

\* C2: a create that takes effect leaves the tabs that were open before it
\* on the notes they designated, in their order, and adds one tab.
C2_CreateKeepsReferences ==
    [][(last'.op = "create" /\ last'.ok)
          => /\ Len(open_tabs') = Len(open_tabs) + 1
             /\ SubSeq(CurTabIds', 1, Len(open_tabs)) = CurTabIds]_vars

\* C3: delete_note(i) leaves the tabs of the other notes on the notes they
\* designated, in their order, drops the tabs of the deleted note, and
\* leaves the selection on its note when that is not the deleted one.
C3_DeleteKeepsReferences ==
    [][(last'.op = "delete" /\ last'.ok)
          => /\ CurTabIds' = SelectSeq(CurTabIds, LAMBDA d : d # last'.id)
             /\ (~last'.sel => CurSelId' = CurSelId)]_vars

\* A delete below two open tabs of different notes, one of them selected,
\* has moved their indices.
C3_Witness ==
    /\ last.op = "delete" /\ last.ok /\ ~last.sel
    /\ Len(open_tabs) >= 2
    /\ Distinct(open_tabs)
    /\ current_tab # None
    /\ \A k \in 1..Len(open_tabs) : open_tabs[k] >= last.idx

\* C4: every index in open_tabs, and current_tab when there is one, is a
\* position of notes.
C4_IndicesInRange ==
    /\ \A k \in 1..Len(open_tabs) :
          open_tabs[k] >= 0 /\ open_tabs[k] < Len(notes)
    /\ current_tab # None => (current_tab >= 0 /\ current_tab < Len(notes))

\* A delete has left the selection on the last note of a shorter list.
C4_Witness ==
    /\ last.op = "delete" /\ last.ok
    /\ last.idx < Len(notes)
    /\ current_tab = Len(notes) - 1
    /\ \E k \in 1..Len(open_tabs) : open_tabs[k] = Len(notes) - 1

\* C5: no index occurs twice in open_tabs.
C5_NoDuplicateTabs == Distinct(open_tabs)

\* C6: no two notes have the same path, and every file of the directory is
\* the file of exactly one note.
C6_UniquePaths ==
    /\ \A j, k \in 1..Len(notes) : j # k => notes[j].path # notes[k].path
    /\ \A p \in DOMAIN files :
          Cardinality({k \in 1..Len(notes) : notes[k].path = p}) = 1

\* C7: current_tab is None or an element of open_tabs.
C7_SelectionIsOpen ==
    current_tab # None => \E k \in 1..Len(open_tabs) : open_tabs[k] = current_tab

\* The delete of the selected note, the only open one, has left notes and
\* no selection.
C7_Witness ==
    /\ last.op = "delete" /\ last.ok /\ last.sel
    /\ open_tabs = <<>>
    /\ current_tab = None
    /\ Len(notes) > 0

\* C8: notes is in ascending order of the lowercased titles.
C8_SortedByLowercaseTitle ==
    \A k \in 1..(Len(notes) - 1) :
        ~StrLess(to_lowercase(notes[k + 1].title), to_lowercase(notes[k].title))

\* A rename has moved the renamed note to another position.
C8_Witness ==
    /\ last.op = "rename" /\ last.ok
    /\ IndexOfId(last.id) # None
    /\ IndexOfId(last.id) # last.idx

\* C9: a delete request for B that replaces a pending delete request for A
\* leaves the one pending request on B, and the confirmation that follows
\* deletes B, keeps every other note and closes the dialog.
C9_LastRequestWins ==
    [][/\ (req'.over /\ confirmation_dialog'.open)
             => /\ confirmation_dialog'.action_type = "DeleteNote"
                /\ IdAt(notes', confirmation_dialog'.target_index) = req'.id
       /\ (req.over /\ confirmation_dialog.open /\ req' = req
              /\ ~confirmation_dialog'.open)
             => CurNoteIds' = SelectSeq(CurNoteIds, LAMBDA d : d # req.id)]_vars

\* The request for B that replaced the request for A has been confirmed.
C9_Witness ==
    /\ req.over
    /\ ~confirmation_dialog.open
    /\ req.id \notin {notes[k].id : k \in 1..Len(notes)}

\* C10: the delete of the selected note leaves the selection on the last
\* of the remaining tabs, and no selection when no tab remains.
C10_DeleteSelectsLastTab ==
    [][(last'.op = "delete" /\ last'.ok /\ last'.sel)
          => current_tab' = LastOf(open_tabs')]_vars

\* The delete of the selected note has left two tabs of different notes.
C10_Witness ==
    /\ last.op = "delete" /\ last.ok /\ last.sel
    /\ Len(open_tabs) >= 2
    /\ Distinct(open_tabs)
    /\ current_tab = open_tabs[Len(open_tabs)]

\* C11: a close that takes effect, the clean close or the confirmed close
\* of a dirty tab, removes the tab from open_tabs and moves the selection
\* only when the closed tab was the selection, then to the last of the
\* remaining tabs or to none.
C11_CloseKeepsOtherSelection ==
    [][(last'.op \in {"close_clean", "force_close"} /\ last'.ok)
          => /\ open_tabs' = Retain(open_tabs, last'.idx)
             /\ current_tab' = IF last'.sel THEN LastOf(open_tabs')
                               ELSE current_tab]_vars

\* C12: a close intent on a clean tab leaves the dialog as it is and
\* closes the tab in the same frame; a close intent on a dirty tab opens
\* the dialog for CloseUnsavedTab on that tab and leaves open_tabs and
\* current_tab as they are.
C12_DirtyCloseAsks ==
    [][/\ last'.op = "close_clean"
             => /\ confirmation_dialog' = confirmation_dialog
                /\ open_tabs' = Retain(open_tabs, last'.idx)
       /\ last'.op = "close_dirty"
             => /\ confirmation_dialog' =
                       [open |-> TRUE, action_type |-> "CloseUnsavedTab",
                        target_index |-> last'.idx]
                /\ UNCHANGED <<open_tabs, current_tab>>]_vars

\* A close intent on a dirty tab, one of two open tabs, has opened the
\* dialog.
C12_Witness ==
    /\ last.op = "close_dirty"
    /\ confirmation_dialog.open
    /\ Len(open_tabs) >= 2
    /\ \E k \in 1..Len(open_tabs) : open_tabs[k] = last.idx

\* C13: a cancellation closes the dialog and leaves the notes, the files,
\* open_tabs and current_tab as they are; and while the dialog is closed
\* no frame deletes a note or force-closes a tab.
C13_CancelDoesNothing ==
    [][/\ last'.op = "cancel"
             => /\ ~confirmation_dialog'.open
                /\ UNCHANGED <<notes, files, open_tabs, current_tab>>
       /\ ~confirmation_dialog.open
             => /\ Len(notes') >= Len(notes)
                /\ (last'.op # "close_clean" => Len(open_tabs') >= Len(open_tabs))]_vars

\* A request on an open note has been cancelled.
C13_Witness ==
    /\ last.op = "cancel"
    /\ ~confirmation_dialog.open
    /\ \E k \in 1..Len(open_tabs) : open_tabs[k] = last.idx

\* The note with identity id, after the step.
NoteOfId(ns, id) == ns[CHOOSE k \in 1..Len(ns) : ns[k].id = id]

\* C14: rename_note with an empty title, or with a title whose sanitized
\* form is the note's title, changes neither the notes (title, path and
\* unsaved_changes included) nor the files, open_tabs or current_tab.
C14_RenameNoOp ==
    [][last'.op = "rename_noop"
          => UNCHANGED <<notes, files, open_tabs, current_tab>>]_vars

\* rename_note has been called on a clean note titled a_b with "" or "a b".
C14_Witness ==
    /\ last.op = "rename_noop"
    /\ NoteOfId(notes, last.id).title = SafeTitle(<<97, 32, 98>>)
    /\ ~NoteOfId(notes, last.id).unsaved_changes

\* C15: when fs::rename fails, rename_note changes neither the notes nor
\* the files, open_tabs or current_tab; when it succeeds the note has the
\* sanitized title, the path of that title and unsaved_changes = true.
C15_RenameFailureKeepsNote ==
    [][/\ last'.op = "rename_failed"
             => UNCHANGED <<notes, files, open_tabs, current_tab>>
       /\ last'.op \in {"rename_noop", "rename_failed"}
             => NoteOfId(notes', last'.id) = NoteOfId(notes, last'.id)
       /\ last'.op = "rename_done"
             => \E t \in RenameInputs :
                   LET note == NoteOfId(notes', last'.id) IN
                   /\ Len(t) > 0
                   /\ note.title = SafeTitle(t)
                   /\ note.path = NotePath(SafeTitle(t))
                   /\ note.unsaved_changes]_vars

\* fs::rename has failed for a clean note whose file exists.
C15_Witness ==
    /\ last.op = "rename_failed"
    /\ NoteOfId(notes, last.id).path \in DOMAIN files
    /\ ~NoteOfId(notes, last.id).unsaved_changes
    /\ Len(notes) >= 2

\* The note at position k is dirty and its last save is at least the
\* interval ago.
IsDue(k) ==
    /\ notes[k].unsaved_changes
    /\ now - notes[k].last_saved >= AutosaveInterval

\* The notes the step has changed whose path is p.
ChangedAt(p) ==
    {k \in 1..Len(notes) : notes'[k] # notes[k] /\ notes[k].path = p}

\* C16: the sweep of a frame without an intent changes a note only if it
\* is due, and then the note is clean, its last_saved is now and its file
\* holds its content; the other notes and files are as before.  An edit
\* leaves the note dirty and does not change last_saved (the sweep of the
\* same frame does, for a note that is due).
C16_AutosaveSweep ==
    [][/\ last'.op = "idle"
             => /\ Len(notes') = Len(notes)
                /\ \A k \in 1..Len(notes) :
                      \/ notes'[k] = notes[k]
                      \/ /\ IsDue(k)
                         /\ notes'[k] = [notes[k] EXCEPT !.unsaved_changes = FALSE,
                                                         !.last_saved = now]
                /\ \A p \in DOMAIN files' :
                      IF ChangedAt(p) = {}
                      THEN p \in DOMAIN files /\ files'[p] = files[p]
                      ELSE \E k \in ChangedAt(p) :
                              files'[p] = Utf8Encode(notes[k].content)
                /\ DOMAIN files \subseteq DOMAIN files'
       /\ last'.op = "edit"
             => LET k == current_tab + 1 IN
                /\ notes'[k].unsaved_changes
                /\ notes'[k].last_saved =
                       IF IsDue(k) /\ notes'[k].last_saved # notes[k].last_saved
                       THEN now ELSE notes[k].last_saved]_vars

\* A sweep has written a note and has left a dirty note alone that is not
\* yet due.
C16_Witness ==
    /\ last.op = "idle" /\ last.ok
    /\ \E j, k \in 1..Len(notes) :
          /\ ~notes[j].unsaved_changes /\ notes[j].last_saved = now
          /\ notes[k].unsaved_changes
          /\ now - notes[k].last_saved < AutosaveInterval

\* Starting on the directory of s finds the note at index i of s: a note
\* with its path and its content, and clean.
RoundTrips(s, i) ==
    \A order \in ReadOrders(DOMAIN s.files) :
        LET loaded == load(s.files, order, now) IN
        \E j \in 1..Len(loaded) :
            /\ loaded[j].path = s.notes[i + 1].path
            /\ loaded[j].content = s.notes[i + 1].content
            /\ ~loaded[j].unsaved_changes

\* C17: after save_current_note has written the selected note, and after
\* the sweep has written a note, a load of the directory yields a clean
\* note with the path and the content of the written note.
C17_SaveLoadRoundTrip ==
    /\ (current_tab # None /\ current_tab < Len(notes) /\ SaveWrites(Cur, TRUE))
          => RoundTrips(save_current_note(Cur, TRUE, now), current_tab)
    /\ \A k \in AutosaveDue(notes, now) :
          RoundTrips(autosave_notes(Cur, {k}, now), k - 1)

\* A note whose content is not ASCII has been written: it is the selected
\* note, it is clean, and its file holds the two bytes of its content.
C17_Witness ==
    /\ current_tab # None /\ current_tab < Len(notes)
    /\ ~notes[current_tab + 1].unsaved_changes
    /\ notes[current_tab + 1].content = <<233>>
    /\ notes[current_tab + 1].path \in DOMAIN files
    /\ files[notes[current_tab + 1].path] = <<195, 169>>

\* C18: a load of the directory yields no note for a file whose read
\* fails, and a note for every file whose read succeeds.
C18_LoadSkipsUnreadable ==
    \A order \in ReadOrders(DOMAIN files) :
        LET loaded == load(files, order, now) IN
        {loaded[k].path : k \in 1..Len(loaded)}
            = {p \in DOMAIN files : read_to_string(files, p).ok}

\* The blocks of the preview: a Spacer, a Heading, a Paragraph.
Spacer == Element("<p>", <<>>, "</p>")
Heading1(text) == Element("<h1>", text, "</h1>")
Paragraph(text) == Element("<p>", text, "</p>")

\* C19: the empty text renders to one Spacer, "# Title" to one level-1
\* heading with the text "Title", "plain text" to one paragraph with the
\* text "plain text".
C19_RenderExamples ==
    preview.rendered =>
        /\ preview.markdown = <<>> => preview.html_output = <<Spacer>>
        /\ preview.markdown = <<35, 32, 84, 105, 116, 108, 101>>
              => preview.html_output = <<Heading1(<<84, 105, 116, 108, 101>>)>>
        /\ preview.markdown = <<112, 108, 97, 105, 110, 32, 116, 101, 120, 116>>
              => preview.html_output =
                     <<Paragraph(<<112, 108, 97, 105, 110, 32, 116, 101, 120, 116>>)>>

\* The block the rules give for a trimmed line: the first rule that
\* matches, a Paragraph when none does.
BlockOf(trimmed) ==
    IF Len(trimmed) = 0 THEN Spacer
    ELSE IF starts_with(trimmed, Hash3)
    THEN Element("<h3>", From(trimmed, 4), "</h3>")
    ELSE IF starts_with(trimmed, Hash2)
    THEN Element("<h2>", From(trimmed, 3), "</h2>")
    ELSE IF starts_with(trimmed, Hash1) THEN Heading1(From(trimmed, 2))
    ELSE IF starts_with(trimmed, Dash) \/ starts_with(trimmed, Star)
    THEN Element("<li>", From(trimmed, 2), "</li>")
    ELSE IF starts_with(trimmed, Gt)
    THEN Element("<blockquote>", From(trimmed, 2), "</blockquote>")
    ELSE IF starts_with(trimmed, Fence) THEN Element("<pre><code>", <<>>, "")
    ELSE Paragraph(trimmed)

\* C20: the rendered text has one block for each line of the text, in the
\* order of the lines, and the block of a line is the one the rules give:
\* a Paragraph with the trimmed line when no prefix matches.
C20_OneBlockPerLine ==
    preview.rendered =>
        LET ls == lines(preview.markdown) IN
        /\ Len(preview.html_output) = Len(ls)
        /\ \A k \in 1..Len(ls) : preview.html_output[k] = BlockOf(trim(ls[k]))

\* The characters of [A-Za-z0-9_].
InCharset(c) ==
    \/ c >= 48 /\ c <= 57
    \/ c >= 65 /\ c <= 90
    \/ c >= 97 /\ c <= 122
    \/ c = 95

OnlyCharset(str) == \A k \in 1..Len(str) : InCharset(str[k])

\* C21: the title and the filename stem of a note that create_note has made
\* or rename_note has renamed contain only characters of [A-Za-z0-9_].
C21_TitleInCharset ==
    (last.op \in {"create", "rename"} /\ last.ok) =>
        LET note == NoteOfId(notes, last.id) IN
        /\ OnlyCharset(note.title)
        /\ OnlyCharset(file_stem(note.path))

\* C22: the confirmation of a pending request acts on the note the request
\* was made for, whatever create_note and rename_note have done to the
\* order of the notes in between: a confirmed delete removes that note and
\* no other, a confirmed close closes the tab of that note.
C22_ConfirmActsOnTarget ==
    [][(confirmation_dialog.open /\ last'.ok
            /\ last'.op \in {"delete", "force_close"}) =>
         /\ IdAt(notes, confirmation_dialog.target_index) = req.id
         /\ last'.op = "delete" =>
               {notes[k].id : k \in 1..Len(notes)}
                   \ {notes'[k].id : k \in 1..Len(notes')} = {req.id}]_vars

\* C23: every note whose unsaved_changes is false has a file at its path,
\* and the file holds the content of the note.
C23_CleanNotesArePersisted ==
    \A k \in 1..Len(notes) :
        ~notes[k].unsaved_changes =>
            read_to_string(files, notes[k].path)
                = [ok |-> TRUE, value |-> notes[k].content]

\* C24: after a create_note that takes effect, the selection and the last
\* open tab designate the note just made, and that note is empty.
C24_CreateSelectsNewNote ==
    (last.op = "create" /\ last.ok) =>
        /\ CurSelId = last.id
        /\ Len(open_tabs) > 0
        /\ CurTabIds[Len(open_tabs)] = last.id
        /\ NoteOfId(notes, last.id).content = <<>>

\* The note id is dirty and was last written at time t.
DirtySince(id, t) ==
    \E k \in 1..Len(notes) :
        /\ notes[k].id = id
        /\ notes[k].unsaved_changes
        /\ notes[k].last_saved = t

\* C25: a note that is dirty, last written at a time t from which the
\* autosave interval can still elapse, is eventually written with
\* unsaved_changes cleared (it is clean, or last_saved has moved on from t)
\* or deleted.
C25_DirtyNotesGetWritten ==
    \A id \in 1..MaxLiveNotes : \A t \in 0..(MaxTime - AutosaveInterval) :
        DirtySince(id, t) ~> ~DirtySince(id, t)

\* The sweep of a frame without an intent has written a note after the
\* autosave interval has elapsed.
C25_Witness ==
    /\ last.op = "idle" /\ last.ok
    /\ now >= AutosaveInterval
    /\ \E k \in 1..Len(notes) :
          /\ ~notes[k].unsaved_changes
          /\ notes[k].last_saved = now
          /\ read_to_string(files, notes[k].path).value = notes[k].content
====
